---------------------------- MODULE Spec2Model ----------------------------
(***************************************************************************)
(* BPM detection and activity analysis of MIRTracks.  This first part is   *)
(* src/bpm_detect_1.py; src/analyze_audio_activity.py is modelled below.   *)
(*                                                                         *)
(* Numbers.  Times (start_time, end_time, window_size) are counted in      *)
(* quarter seconds, so int(t * fs) is the truncation of t * fs / 4.  BPM   *)
(* values are counted in thousandths of a beat per minute; for the sample  *)
(* rates of FsSet every value 60 / lag * (fs / 8) and every median of them *)
(* is a whole number of thousandths, so the arithmetic below is exact.     *)
(*                                                                         *)
(* Library calls.  pywt.dwt, scipy.signal.lfilter and numpy.correlate are  *)
(* modelled by the lengths of their outputs, which are exact, and by two   *)
(* facts about their values: the transform of an all-zero window is        *)
(* all-zero, and the autocorrelation values of any other window are an     *)
(* input drawn from CorrelVals.  numpy's elementwise addition, amax,       *)
(* where and median are modelled by what they compute, including the       *)
(* errors they raise.                                                      *)
(***************************************************************************)
EXTENDS Integers, Sequences, FiniteSets, TLC

VARIABLES
    op,             \* top-level call: "none", "file", "segments", then "returned" / "raised"
    fs,             \* sample rate of the audio
    nsamps,         \* len(samps) / len(audio_data)
    silent,         \* TRUE iff every sample of the audio is zero
    window_size,    \* the caller's window duration (quarter seconds)
    segments,       \* segment_data["segments"]: sequence of [start_time, end_time]
    seg_i,          \* loop variable i of process_audio_with_segments (0-based)
    results,        \* results["segments"]
    pc,             \* position inside detect_file_bpm / detect_segment_bpm:
                    \* "idle", "loop", then "rejected" (line 159), "returned"
                    \* (lines 140/145, 186/191) or "raised"
    seg_lo,         \* first sample index of the data being windowed
    seg_len,        \* len(samps) / len(segment_data)
    window_samps,
    max_window_ndx,
    window_ndx,     \* number of loop iterations begun
    windows,        \* the slices handed to bpm_detector: sequence of <<lo, hi>>
    bpms,           \* list of per-window bpm arrays
    ret,            \* value returned by detect_file_bpm / detect_segment_bpm
    exc,            \* exception raised, "" when none
    last,           \* what bpm_detector did with the latest window
    \* src/analyze_audio_activity.py
    act_pc,         \* "none", then "silence" (line 108 done) and "done", or
                    \* "called" after a direct call of get_active_segments
    silence_tags,   \* per frame: TRUE iff S_db < threshold_db (line 34)
    min_silence_duration,
    audio_duration, \* duration (line 105) / audio_duration (line 59)
    silence_intervals,
    active_intervals,
    analysis,       \* the totals of analyze_audio_file (lines 114-126)
    \* a pulse train handed to bpm_detector
    pulse

bpm_vars == <<op, fs, nsamps, silent, window_size, segments, seg_i, results, pc,
              seg_lo, seg_len, window_samps, max_window_ndx, window_ndx,
              windows, bpms, ret, exc, last>>

activity_vars == <<act_pc, silence_tags, min_silence_duration, audio_duration,
                   silence_intervals, active_intervals, analysis>>

vars == <<bpm_vars, activity_vars, pulse>>

--------------------------------------------------------------------------
(* Bounds of the model *)

MaxSegments == 2

FsSet == {4, 30}

AudioLens == {0, 45, 58, 230}

WindowSizes == {9, 10, 12}

SegmentTimes == {<<1, 9>>, <<8, 32>>, <<9, 8>>, <<-8, -4>>, <<-4, 0>>}

CorrelVals == {-1, 0, 1}

\* pulse trains: sample rates, window lengths and periods in samples, first
\* click at sample PulsePhases, each click raising PulseWidths samples of the
\* composite signal
PulseRates == {128}
PulseWindows == {390, 400, 420, 430}
PulsePeriods == {48, 80, 96, 128, 192}
PulsePhases == {0, 16, 40}
PulseWidths == {1, 2}

--------------------------------------------------------------------------
(* Values *)

None == [t |-> "None", v |-> 0]

Float(x) == [t |-> "float", v |-> x]

Abs(x) == IF x < 0 THEN 0 - x ELSE x

Min(a, b) == IF a < b THEN a ELSE b

Max(a, b) == IF a < b THEN b ELSE a

\* int(x) of Python for x = num / den, den > 0: truncation toward zero
IntTrunc(num, den) == IF num >= 0 THEN num \div den ELSE 0 - ((0 - num) \div den)

\* int(t * fs) for a time t in quarter seconds
ToSamples(t, rate) == IntTrunc(t * rate, 4)

\* normalisation of one bound of a Python slice a[i:j] of a list of length n
SliceIndex(i, n) == IF i < 0 THEN Max(i + n, 0) ELSE Min(i, n)

\* <<lo, hi>> of a[i:j]: the elements lo .. hi-1 (none when hi = lo)
SliceBounds(i, j, n) ==
    LET lo == SliceIndex(i, n)
        hi == SliceIndex(j, n)
    IN  <<lo, Max(lo, hi)>>

--------------------------------------------------------------------------
(* bpm_detector: lengths *)

levels == 4

max_decimation == 2 ^ (levels - 1)

\* math.floor(60.0 / 220 * (fs / max_decimation))
min_ndx(rate) == (60 * rate) \div (220 * max_decimation)

\* math.floor(60.0 / 40 * (fs / max_decimation))
max_ndx(rate) == (60 * rate) \div (40 * max_decimation)

\* len of each output of pywt.dwt(x, "db4") for len(x) = n: the filter has 8 taps
DwtLen(n) == (n + 8 - 1) \div 2

\* len(cA) = len(cD) after the DWT of loop iterations 0 .. k-1
RECURSIVE CoeffLen(_, _)
CoeffLen(n, k) == IF k = 0 THEN n ELSE DwtLen(CoeffLen(n, k - 1))

\* math.floor(cD_minlen), cD_minlen = len(cD) / max_decimation + 1 at loop 0
MinLen(n) == CoeffLen(n, 1) \div max_decimation + 1

\* len(x[::step])
StridedLen(len, step) == (len + step - 1) \div step

\* len(x[0:m])
TruncLen(len, m) == Min(len, m)

\* len(a + b) for numpy arrays of lengths la, lb; -1 when the shapes do not
\* broadcast and the addition raises ValueError
AddLen(la, lb) ==
    IF la = lb THEN la
    ELSE IF la = 1 THEN lb
    ELSE IF lb = 1 THEN la
    ELSE -1

\* len(cD_sum) after loop iterations 0 .. k-1, -1 once an addition has raised
RECURSIVE SumLen(_, _)
SumLen(n, k) ==
    IF k = 0 THEN MinLen(n)
    ELSE LET prev == SumLen(n, k - 1)
             cD   == StridedLen(CoeffLen(n, k), 2 ^ (levels - (k - 1) - 1))
         IN  IF prev = -1 THEN -1
             ELSE AddLen(TruncLen(cD, MinLen(n)), prev)

\* len(cD_sum) after the approximation is added (line 82)
CompositeLen(n) ==
    IF SumLen(n, levels) = -1 THEN -1
    ELSE AddLen(TruncLen(CoeffLen(n, levels), MinLen(n)), SumLen(n, levels))

\* len(correl_midpoint_tmp): correl has 2 * len - 1 entries, the midpoint is
\* floor(len(correl) / 2)
AcfLen(n) ==
    LET c == 2 * CompositeLen(n) - 1
    IN  c - (c \div 2)

\* the lengths above for every window length the model can form, computed once
MaxAudioLen ==
    CHOOSE m \in AudioLens \cup PulseWindows :
        \A k \in AudioLens \cup PulseWindows : k <= m

Lens ==
    [n \in 0 .. MaxAudioLen |->
        [loop |-> SumLen(n, levels), composite |-> CompositeLen(n),
         acf |-> AcfLen(n)]]

--------------------------------------------------------------------------
(* bpm_detector: values *)

MaxAbs(data) ==
    CHOOSE m \in {Abs(data[i]) : i \in DOMAIN data} :
        \A j \in DOMAIN data : Abs(data[j]) <= m

\* numpy.where(data == v)[0]: the 0-based indices, ascending
Where(data, v) ==
    SelectSeq([i \in 1 .. Len(data) |-> i - 1], LAMBDA i : data[i + 1] = v)

peak_detect(data) ==
    LET max_val  == MaxAbs(data)
        peak_ndx == Where(data, max_val)
    IN  IF Len(peak_ndx) = 0 THEN Where(data, 0 - max_val) ELSE peak_ndx

\* 60.0 / k * (fs / max_decimation) in thousandths; numpy divides by zero to inf
Infinity == 2 ^ 30

BpmOfLag(k, rate) ==
    IF k = 0 THEN Infinity ELSE (60 * 1000 * rate) \div (max_decimation * k)

\* TRUE iff bpm_detector gets as far as slicing the autocorrelation (line 94)
ReachesPeaks(n, rate, zero) ==
    LET A == Lens[n].acf
    IN  /\ Lens[n].composite # -1
        /\ ~zero
        /\ ~(min_ndx(rate) >= A \/ max_ndx(rate) > A)

\* the values correl_midpoint_tmp[min_ndx:max_ndx] may take
CorrelInputs(n, rate, zero) ==
    IF ReachesPeaks(n, rate, zero)
    THEN LET b == SliceBounds(min_ndx(rate), max_ndx(rate), Lens[n].acf)
         IN  [1 .. (b[2] - b[1]) -> CorrelVals]
    ELSE {<<>>}

NoAudioData == [out |-> "none", exc |-> "", lags |-> <<>>, bpm |-> <<>>]

Raise(e) == [out |-> "raise", exc |-> e, lags |-> <<>>, bpm |-> <<>>]

\* bpm_detector(data, fs) for a window of n samples, all zero iff `zero`,
\* whose searched autocorrelation slice is sl
bpm_detector(n, rate, zero, sl) ==
    IF Lens[n].loop = -1 THEN Raise("ValueError")               \* line 73
    ELSE IF zero THEN NoAudioData                                \* line 75
    ELSE IF Lens[n].composite = -1 THEN Raise("ValueError")     \* line 82
    ELSE IF min_ndx(rate) >= Lens[n].acf \/ max_ndx(rate) > Lens[n].acf
         THEN NoAudioData                                        \* line 91
    ELSE IF Len(sl) = 0 THEN Raise("ValueError")                \* amax, line 38
    ELSE LET peak_ndx == peak_detect(sl)
         IN  IF Len(peak_ndx) = 0 THEN NoAudioData               \* line 95
             ELSE LET adjusted == [i \in 1 .. Len(peak_ndx) |->
                                      peak_ndx[i] + min_ndx(rate)]
                  IN  [out  |-> "bpm", exc |-> "",
                       lags |-> adjusted,
                       bpm  |-> [i \in 1 .. Len(adjusted) |->
                                    BpmOfLag(adjusted[i], rate)]]

--------------------------------------------------------------------------
(* numpy.median and round *)

SameShape(list) == \A i, j \in DOMAIN list : Len(list[i]) = Len(list[j])

RECURSIVE Flatten(_)
Flatten(list) ==
    IF list = <<>> THEN <<>> ELSE Head(list) \o Flatten(Tail(list))

\* numpy.median of a non-empty sequence of numbers
Median(vals) ==
    LET s == SortSeq(vals, LAMBDA a, b : a < b)
        k == Len(s)
    IN  IF k % 2 = 1 THEN s[(k + 1) \div 2]
        ELSE (s[k \div 2] + s[k \div 2 + 1]) \div 2

\* round(x, 1) of a non-negative x in thousandths: to the nearest tenth, an
\* exact tie to the even tenth
Round1(x) ==
    LET q == x \div 100
        r == x % 100
    IN  IF r < 50 THEN q * 100
        ELSE IF r > 50 THEN (q + 1) * 100
        ELSE IF q % 2 = 0 THEN q * 100 ELSE (q + 1) * 100

--------------------------------------------------------------------------
(* State machine *)

NoCall == [called |-> FALSE, n |-> 0, zero |-> FALSE, sl |-> <<>>,
           res |-> NoAudioData]

SegmentLists ==
    UNION {[1 .. k -> SegmentTimes] : k \in 0 .. MaxSegments}

Init ==
    /\ op = "none"
    /\ fs = 0
    /\ nsamps = 0
    /\ silent = FALSE
    /\ window_size = 0
    /\ segments = <<>>
    /\ seg_i = 0
    /\ results = <<>>
    /\ pc = "idle"
    /\ seg_lo = 0
    /\ seg_len = 0
    /\ window_samps = 0
    /\ max_window_ndx = 0
    /\ window_ndx = 0
    /\ windows = <<>>
    /\ bpms = <<>>
    /\ ret = None
    /\ exc = ""
    /\ last = NoCall
    /\ act_pc = "none"
    /\ silence_tags = <<>>
    /\ min_silence_duration = 0
    /\ audio_duration = 0
    /\ silence_intervals = <<>>
    /\ active_intervals = <<>>
    /\ analysis = None
    /\ pulse = None

\* lines 119-126 / 165-172: the window size and count for data of len samples
\* starting at sample lo of the audio; math.floor(len / 0) raises
StartWindows(lo, len, rate, d) ==
    LET w0 == ToSamples(d, rate)
        w  == IF len < w0 THEN len ELSE w0
    IN  /\ seg_lo' = lo
        /\ seg_len' = len
        /\ window_samps' = w
        /\ window_ndx' = 0
        /\ windows' = <<>>
        /\ bpms' = <<>>
        /\ last' = NoCall
        /\ ret' = None
        /\ IF w = 0
           THEN /\ max_window_ndx' = 0
                /\ pc' = "raised"
                /\ exc' = "ZeroDivisionError"
                /\ op' = "raised"
           ELSE /\ max_window_ndx' = len \div w
                /\ pc' = "loop"
                /\ exc' = ""

\* detect_file_bpm up to its loop, for a readable file of n samples
detect_file_bpm(n, rate, d, z) ==
    /\ op = "none"
    /\ fs' = rate
    /\ nsamps' = n
    /\ silent' = z
    /\ window_size' = d
    /\ StartWindows(0, n, rate, d)
    /\ IF ToSamples(d, rate) = 0 \/ n = 0 THEN TRUE ELSE op' = "file"
    /\ UNCHANGED <<segments, seg_i, results>>

\* process_audio_with_segments up to its loop
process_audio_with_segments(n, rate, d, z, segs) ==
    /\ op = "none"
    /\ op' = "segments"
    /\ fs' = rate
    /\ nsamps' = n
    /\ silent' = z
    /\ window_size' = d
    /\ segments' = segs
    /\ seg_i' = 0
    /\ results' = <<>>
    /\ UNCHANGED <<pc, seg_lo, seg_len, window_samps, max_window_ndx,
                   window_ndx, windows, bpms, ret, exc, last>>

\* the range test of detect_segment_bpm (line 157)
InvalidRange(start_sample, end_sample, len) ==
    \/ start_sample >= len
    \/ end_sample > len
    \/ start_sample >= end_sample

\* detect_segment_bpm up to its loop, called for segment i (line 240)
detect_segment_bpm ==
    /\ op = "segments"
    /\ pc = "idle"
    /\ seg_i < Len(segments)
    /\ LET start_time   == segments[seg_i + 1][1]
           end_time     == segments[seg_i + 1][2]
           start_sample == ToSamples(start_time, fs)
           end_sample   == ToSamples(end_time, fs)
           b            == SliceBounds(start_sample, end_sample, nsamps)
       IN  IF InvalidRange(start_sample, end_sample, nsamps)
           THEN /\ ret' = None                                   \* line 159
                /\ pc' = "rejected"
                /\ UNCHANGED <<op, seg_lo, seg_len, window_samps,
                               max_window_ndx, window_ndx, windows, bpms,
                               exc, last>>
           ELSE /\ StartWindows(b[1], b[2] - b[1], fs, window_size)
                /\ IF b[2] - b[1] = 0 \/ ToSamples(window_size, fs) = 0
                   THEN TRUE ELSE UNCHANGED op
    /\ UNCHANGED <<fs, nsamps, silent, window_size, segments, seg_i, results>>
    /\ UNCHANGED <<activity_vars, pulse>>

\* one iteration of the window loop (lines 129-135 / 175-181)
WindowStep ==
    /\ pc = "loop"
    /\ window_ndx < max_window_ndx
    /\ LET samps_ndx == window_ndx * window_samps
           b         == SliceBounds(samps_ndx, samps_ndx + window_samps, seg_len)
           n         == b[2] - b[1]
       IN  \E zero \in (IF silent THEN {TRUE} ELSE BOOLEAN) :
           \E sl \in CorrelInputs(n, fs, zero) :
               LET r == bpm_detector(n, fs, zero, sl)
               IN  /\ windows' = Append(windows, <<seg_lo + b[1], seg_lo + b[2]>>)
                   /\ last' = [called |-> TRUE, n |-> n, zero |-> zero,
                               sl |-> sl, res |-> r]
                   /\ window_ndx' = window_ndx + 1
                   /\ IF r.out = "raise"
                      THEN /\ pc' = "raised"
                           /\ exc' = r.exc
                           /\ op' = "raised"
                           /\ bpms' = bpms
                      ELSE /\ bpms' = IF r.out = "bpm"
                                      THEN Append(bpms, r.bpm) ELSE bpms
                           /\ UNCHANGED <<pc, exc, op>>
    /\ UNCHANGED <<fs, nsamps, silent, window_size, segments, seg_i, results,
                   seg_lo, seg_len, window_samps, max_window_ndx, ret>>
    /\ UNCHANGED <<activity_vars, pulse>>

\* after the loop: the median of the collected estimates (lines 138-145 / 184-191)
Aggregate ==
    /\ pc = "loop"
    /\ window_ndx = max_window_ndx
    /\ IF bpms = <<>>
       THEN /\ ret' = None
            /\ pc' = "returned"
            /\ op' = IF op = "file" THEN "returned" ELSE op
            /\ exc' = exc
       ELSE IF ~SameShape(bpms)
       THEN /\ ret' = ret
            /\ pc' = "raised"
            /\ op' = "raised"
            /\ exc' = "ValueError"
       ELSE /\ ret' = Float(Round1(Median(Flatten(bpms))))
            /\ pc' = "returned"
            /\ op' = IF op = "file" THEN "returned" ELSE op
            /\ exc' = exc
    /\ UNCHANGED <<fs, nsamps, silent, window_size, segments, seg_i, results,
                   seg_lo, seg_len, window_samps, max_window_ndx, window_ndx,
                   windows, bpms, last>>
    /\ UNCHANGED <<activity_vars, pulse>>

FileWindow == op = "file" /\ WindowStep

FileAggregate == op = "file" /\ Aggregate

SegmentWindow == op = "segments" /\ WindowStep

SegmentAggregate == op = "segments" /\ Aggregate

\* the record of segment i (lines 243-251)
AppendResult ==
    /\ op = "segments"
    /\ pc \in {"returned", "rejected"}
    /\ LET start_time == segments[seg_i + 1][1]
           end_time   == segments[seg_i + 1][2]
       IN  results' = Append(results,
                             [segment_index |-> seg_i,
                              start_time    |-> start_time,
                              end_time      |-> end_time,
                              duration      |-> end_time - start_time,
                              bpm           |-> ret])
    /\ seg_i' = seg_i + 1
    /\ pc' = "idle"
    /\ seg_lo' = 0
    /\ seg_len' = 0
    /\ window_samps' = 0
    /\ max_window_ndx' = 0
    /\ window_ndx' = 0
    /\ windows' = <<>>
    /\ bpms' = <<>>
    /\ last' = NoCall
    /\ ret' = None
    /\ UNCHANGED <<op, fs, nsamps, silent, window_size, segments, exc>>
    /\ UNCHANGED <<activity_vars, pulse>>

\* the loop over the segments is over: the results are returned (line 259)
ReturnResults ==
    /\ op = "segments"
    /\ pc = "idle"
    /\ seg_i = Len(segments)
    /\ op' = "returned"
    /\ UNCHANGED <<fs, nsamps, silent, window_size, segments, seg_i, results,
                   pc, seg_lo, seg_len, window_samps, max_window_ndx,
                   window_ndx, windows, bpms, ret, exc, last>>
    /\ UNCHANGED <<activity_vars, pulse>>

CallFile ==
    /\ op = "none"
    /\ \E n \in AudioLens, rate \in FsSet, d \in WindowSizes, z \in BOOLEAN :
           detect_file_bpm(n, rate, d, z)
    /\ UNCHANGED <<activity_vars, pulse>>

CallSegments ==
    /\ op = "none"
    /\ \E n \in AudioLens, rate \in FsSet, d \in WindowSizes, z \in BOOLEAN :
           \E segs \in SegmentLists :
               process_audio_with_segments(n, rate, d, z, segs)
    /\ UNCHANGED <<activity_vars, pulse>>

Next ==
    \/ CallFile
    \/ CallSegments
    \/ detect_segment_bpm
    \/ FileWindow
    \/ FileAggregate
    \/ SegmentWindow
    \/ SegmentAggregate
    \/ AppendResult
    \/ ReturnResults

Spec == Init /\ [][Next]_vars

--------------------------------------------------------------------------
(* Properties *)

\* a call of detect_file_bpm / detect_segment_bpm that got past the range test
\* has come to its end, by a return or by an exception
DetectEnded == pc \in {"returned", "raised"}

\* the segment detect_segment_bpm is working on or has just finished
InSegmentCall == seg_i < Len(segments) /\ pc # "idle"

InRangeBpm(x) == 40 * 1000 <= x /\ x <= 220 * 1000

\* C1: every numeric BPM, per window or for the file or segment, lies in the
\* closed range [40, 220].
C1_BpmWithinSearchRange ==
    /\ \A i \in DOMAIN bpms : \A j \in DOMAIN bpms[i] : InRangeBpm(bpms[i][j])
    /\ (pc = "returned" /\ ret.t = "float") => InRangeBpm(ret.v)

\* C2: an all-zero window of at least one filter length ends in "no audio
\* data", and audio whose windows are all all-zero is reported undetected.
C2_SilentWindowFails ==
    /\ (silent /\ last.called /\ last.n >= 8) => last.res.out = "none"
    /\ (silent /\ DetectEnded /\ Len(windows) > 0 /\ windows[1][2] - windows[1][1] >= 8)
           => (pc = "returned" /\ ret = None)

\* C3: for N >= 0 samples the window count floor(N / W) is computed, W =
\* floor(d * fs) or N when N is smaller, by the end of the call exactly that
\* many windows have been analysed, and window k is the samples
\* [k * W, (k + 1) * W) of the data.
C3_WindowsPartitionData ==
    DetectEnded =>
        LET w0  == ToSamples(window_size, fs)
            W   == IF seg_len < w0 THEN seg_len ELSE w0
            cnt == IF W = 0 THEN 0 ELSE seg_len \div W
        IN  /\ exc # "ZeroDivisionError"
            /\ Len(windows) = cnt
            /\ \A k \in DOMAIN windows :
                   windows[k] = <<seg_lo + (k - 1) * W, seg_lo + k * W>>

\* the times of a segment request are not start < end inside [0, duration],
\* duration = nsamps / fs seconds
BadTimes(start_time, end_time) ==
    \/ start_time >= end_time
    \/ start_time < 0
    \/ end_time < 0
    \/ start_time * fs > 4 * nsamps
    \/ end_time * fs > 4 * nsamps

\* C4: a segment request with start >= end or a bound outside [0, duration]
\* is rejected: it returns None and no window of it is formed.
C4_InvalidRangeRejected ==
    (InSegmentCall /\ BadTimes(segments[seg_i + 1][1], segments[seg_i + 1][2]))
        => (pc = "rejected" /\ ret = None /\ windows = <<>>)

\* C5: every window ends in an estimate or in no estimate, nothing raises,
\* and the result of a call is None or a number that is no sentinel.
C5_NoWindowIsFatal ==
    /\ last.called => last.res.out \in {"bpm", "none"}
    /\ pc # "raised"
    /\ exc = ""
    /\ ret = None \/ (ret.t = "float" /\ ret.v > 0)

\* the window loop has run to its end and the aggregation has been attempted
AggregateEnded ==
    /\ DetectEnded
    /\ exc # "ZeroDivisionError"
    /\ last.called => last.res.out # "raise"

\* C6: the result is the median, rounded to one decimal, of the estimates of
\* the windows that produced one, and None exactly when there is none.
C6_ResultIsRoundedMedian ==
    AggregateEnded =>
        /\ pc = "returned"
        /\ ret = IF bpms = <<>> THEN None
                 ELSE Float(Round1(Median(Flatten(bpms))))

\* bpm_detector has built the composite signal of the latest window and its
\* autocorrelation
AcfBuilt == last.called /\ ~last.zero /\ Lens[last.n].composite # -1

\* C7: with A available lags, no estimate when [min_lag, max_lag) does not fit
\* inside them, otherwise a lag of min_lag .. max_lag - 1 is reported.
C7_LagRangeChecked ==
    AcfBuilt =>
        LET A    == Lens[last.n].acf
            fits == max_ndx(fs) <= A
        IN  /\ ~fits => last.res.out = "none"
            /\ fits => /\ last.res.out = "bpm"
                       /\ Len(last.sl) = max_ndx(fs) - min_ndx(fs)
                       /\ \A i \in DOMAIN last.res.lags :
                              /\ min_ndx(fs) <= last.res.lags[i]
                              /\ last.res.lags[i] < max_ndx(fs)
                              /\ last.res.lags[i] < A

\* the index set C8 describes for a slice: where the maximum magnitude is
\* reached with a positive sign, else where it is reached with a negative sign
ClaimedPeaks(data) ==
    LET m   == MaxAbs(data)
        pos == {i \in 0 .. Len(data) - 1 : data[i + 1] = m}
    IN  IF pos # {} THEN pos
        ELSE {i \in 0 .. Len(data) - 1 : data[i + 1] = 0 - m}

\* C8: the peaks are the indices of the positive maximum magnitude, else of
\* the negative one, and an empty index set, also that of an empty slice,
\* ends in no estimate.
C8_PeakRule ==
    (last.called /\ ReachesPeaks(last.n, fs, last.zero)) =>
        IF Len(last.sl) = 0 THEN last.res.out = "none"
        ELSE /\ last.res.out = "bpm"
             /\ {last.res.lags[i] - min_ndx(fs) : i \in DOMAIN last.res.lags}
                    = ClaimedPeaks(last.sl)
             /\ \A i \in DOMAIN last.res.lags :
                    Abs(last.sl[last.res.lags[i] - min_ndx(fs) + 1]) = MaxAbs(last.sl)

\* C9: a window contributes one value to the list the median reduces, so the
\* values number at most the windows analysed.
C9_OneValuePerWindow ==
    /\ \A i \in DOMAIN bpms : Len(bpms[i]) = 1
    /\ Len(Flatten(bpms)) <= Len(windows)

\* C10: process_audio_with_segments ends with one record per segment, in
\* order, each with its index, times, duration and BPM or None.
C10_OneRecordPerSegment ==
    /\ \A i \in DOMAIN results :
           /\ results[i].segment_index = i - 1
           /\ results[i].start_time = segments[i][1]
           /\ results[i].end_time = segments[i][2]
           /\ results[i].duration = segments[i][2] - segments[i][1]
           /\ results[i].bpm = None \/ results[i].bpm.t = "float"
    /\ op \in {"returned", "raised"} => Len(results) = Len(segments)

\* C12: with C = floor(len0 / 8) + 1, the strided detail of every level and
\* the final approximation have at least C samples, so cD_sum has exactly C
\* samples after every addition.
C12_CompositeLengths ==
    last.called =>
        LET n == last.n
            C == ((n + 7) \div 2) \div 8 + 1
        IN  /\ \A l \in 0 .. levels - 1 :
                   StridedLen(CoeffLen(n, l + 1), 2 ^ (levels - l - 1)) >= C
            /\ CoeffLen(n, levels) >= C
            /\ \A k \in 1 .. levels : SumLen(n, k) = C
            /\ Lens[n].composite = C

\* C13: a window of n samples with n + 39 <= 3 * fs never yields a numeric
\* BPM, and a file or segment that short is reported None.
C13_ShortWindowUndetected ==
    /\ (last.called /\ last.n + 39 <= 3 * fs) => last.res.out # "bpm"
    /\ (DetectEnded /\ seg_len + 39 <= 3 * fs) => (pc = "returned" /\ ret = None)

--------------------------------------------------------------------------
(***************************************************************************)
(* Activity analysis (src/analyze_audio_activity.py).                      *)
(*                                                                         *)
(* Numbers.  Times are counted in half hops: frame i is at time 2 * i      *)
(* (librosa.frames_to_time of i * hop_length samples).  librosa.feature.rms *)
(* pads the signal, so len(y) samples give 1 + len(y) // hop_length        *)
(* frames and the duration len(y) / sr lies in the last hop:               *)
(* 2 * (frames - 1) <= duration < 2 * frames.                              *)
(*                                                                         *)
(* amplitude_to_db(S, ref=np.max) puts the loudest frame at 0 dB, so with  *)
(* a negative threshold_db at least one frame is not silent.               *)
(***************************************************************************)

MaxFrames == 5
MaxIntervals == 3
MaxTime == 5
MinDurations == {2, 4}

\* the silence flags of 1 .. MaxFrames frames; tags[i] is frame i - 1
SilenceTags ==
    UNION {{tags \in [1 .. n -> BOOLEAN] : \E i \in 1 .. n : ~tags[i]} :
              n \in 1 .. MaxFrames}

\* the silence lists handed to get_active_segments directly
TimeIntervals == {<<s, e>> : s \in 0 .. MaxTime, e \in 0 .. MaxTime}

IntervalLists ==
    UNION {[1 .. k -> {iv \in TimeIntervals : iv[1] <= iv[2]}] :
              k \in 0 .. MaxIntervals}

\* librosa.frames_to_time (line 37)
frame_time(i) == 2 * i

\* an index into a numpy array of n elements: a negative index counts from
\* the end
PyIndex(i, n) == IF i < 0 THEN i + n ELSE i

\* the elements of a set of integers in increasing order (numpy.where)
RECURSIVE Ascending(_)
Ascending(S) ==
    IF S = {} THEN <<>>
    ELSE LET m == CHOOSE x \in S : \A y \in S : x <= y
         IN  <<m>> \o Ascending(S \ {m})

\* lines 43-47: np.diff(np.concatenate([[0], silence_tags, [0]])), indexed
\* from 0
silence_edges(tags) ==
    LET n      == Len(tags)
        padded == [j \in 0 .. n + 1 |->
                      IF j >= 1 /\ j <= n /\ tags[j] THEN 1 ELSE 0]
    IN  [j \in 0 .. n |-> padded[j + 1] - padded[j]]

\* lines 40-57
detect_silence(tags, min_dur) ==
    LET n              == Len(tags)
        edges          == silence_edges(tags)
        silence_starts == Ascending({j \in 0 .. n : edges[j] = 1})
        silence_ends   == Ascending({j \in 0 .. n : edges[j] = -1})
        frame_times(i) == frame_time(PyIndex(i, n))
        pairs          == [k \in 1 .. Min(Len(silence_starts), Len(silence_ends))
                              |-> <<silence_starts[k], silence_ends[k]>>]
        kept           == SelectSeq(pairs, LAMBDA p :
                              frame_times(p[2] - 1) - frame_times(p[1] - 1)
                                  >= min_dur)
    IN  IF \A i \in 1 .. n : ~tags[i]
        THEN <<>>
        ELSE [k \in 1 .. Len(kept) |->
                 <<frame_times(kept[k][1] - 1), frame_times(kept[k][2] - 1)>>]

\* the order of Python tuples
TupleLess(a, b) == a[1] < b[1] \/ (a[1] = b[1] /\ a[2] < b[2])

sorted(ivs) == SortSeq(ivs, TupleLess)

\* the loop of lines 76-80: the active intervals found and current_time
RECURSIVE ActiveLoop(_, _, _)
ActiveLoop(ivs, current_time, active) ==
    IF ivs = <<>>
    THEN [active_intervals |-> active, current_time |-> current_time]
    ELSE LET start == Head(ivs)[1]
             end   == Head(ivs)[2]
         IN  ActiveLoop(Tail(ivs), end,
                        IF current_time < start
                        THEN Append(active, <<current_time, start>>)
                        ELSE active)

get_active_segments_unsorted(duration, ivs) ==
    IF ivs = <<>>
    THEN << <<0, duration>> >>
    ELSE LET r == ActiveLoop(ivs, 0, <<>>)
         IN  IF r.current_time < duration
             THEN Append(r.active_intervals, <<r.current_time, duration>>)
             ELSE r.active_intervals

\* lines 59-86
get_active_segments(duration, ivs) ==
    IF ivs = <<>>
    THEN << <<0, duration>> >>
    ELSE LET r == ActiveLoop(sorted(ivs), 0, <<>>)
         IN  IF r.current_time < duration
             THEN Append(r.active_intervals, <<r.current_time, duration>>)
             ELSE r.active_intervals

\* sum(end - start for start, end in ivs) (lines 114-115)
RECURSIVE TotalDuration(_)
TotalDuration(ivs) ==
    IF ivs = <<>> THEN 0
    ELSE Head(ivs)[2] - Head(ivs)[1] + TotalDuration(Tail(ivs))

\* analyze_audio_file, lines 104-108: the audio is loaded and its silence
\* detected; extra is the part of the duration after the last frame time
AnalyzeSilence ==
    /\ act_pc = "none"
    /\ \E tags \in SilenceTags, m \in MinDurations, extra \in 0 .. 1 :
           /\ silence_tags' = tags
           /\ min_silence_duration' = m
           /\ audio_duration' = frame_time(Len(tags) - 1) + extra
           /\ silence_intervals' = detect_silence(tags, m)
    /\ act_pc' = "silence"
    /\ UNCHANGED <<active_intervals, analysis, bpm_vars, pulse>>

\* analyze_audio_file, lines 111-126; active_percentage is the fraction
\* <<numerator, denominator>>
AnalyzeActive ==
    /\ act_pc = "silence"
    /\ LET active == get_active_segments(audio_duration, silence_intervals)
           total_silence_duration == TotalDuration(silence_intervals)
           total_active_duration  == TotalDuration(active)
       IN  /\ active_intervals' = active
           /\ analysis' =
                  [total_silence_duration |-> total_silence_duration,
                   total_active_duration  |-> total_active_duration,
                   active_percentage      |->
                       IF audio_duration > 0
                       THEN <<total_active_duration * 100, audio_duration>>
                       ELSE <<0, 1>>]
    /\ act_pc' = "done"
    /\ UNCHANGED <<silence_tags, min_silence_duration, audio_duration,
                   silence_intervals, bpm_vars, pulse>>

\* get_active_segments called on its own
CallActiveSegments ==
    /\ act_pc = "none"
    /\ \E duration \in 0 .. MaxTime, ivs \in IntervalLists :
           /\ audio_duration' = duration
           /\ silence_intervals' = ivs
           /\ active_intervals' = get_active_segments(duration, ivs)
    /\ act_pc' = "called"
    /\ UNCHANGED <<silence_tags, min_silence_duration, analysis, bpm_vars,
                   pulse>>

NextActivity ==
    \/ AnalyzeSilence
    \/ AnalyzeActive
    \/ CallActiveSegments

SpecActivity == Init /\ [][NextActivity]_vars

\* the silence intervals have start <= end, lie inside [0, duration] and are
\* pairwise disjoint
DisjointSilence(duration, ivs) ==
    /\ duration > 0
    /\ \A i \in 1 .. Len(ivs) :
           /\ ivs[i][1] <= ivs[i][2]
           /\ 0 <= ivs[i][1]
           /\ ivs[i][2] <= duration
    /\ \A i, j \in 1 .. Len(ivs) :
           i # j => (ivs[i][2] <= ivs[j][1] \/ ivs[j][2] <= ivs[i][1])

\* the unit of time [t, t + 1] lies in the interval iv
Covers(iv, t) == iv[1] <= t /\ t + 1 <= iv[2]

\* C14: for a positive duration and disjoint silence intervals inside
\* [0, duration], the active intervals are non-empty (start < end), in
\* increasing order and pairwise disjoint, none overlaps the interior of a
\* silence interval, every unit of [0, duration] lies in exactly one active
\* or silence interval, total active plus total silence is the duration, and
\* without silence the result is the single interval (0, duration).
C14_ActiveSegmentsPartition ==
    (act_pc \in {"called", "done"}
         /\ DisjointSilence(audio_duration, silence_intervals)) =>
        LET a == active_intervals
            s == silence_intervals
            d == audio_duration
        IN  /\ \A i \in 1 .. Len(a) :
                   /\ a[i][1] < a[i][2]
                   /\ 0 <= a[i][1]
                   /\ a[i][2] <= d
            /\ \A i, j \in 1 .. Len(a) : i < j => a[i][2] <= a[j][1]
            /\ \A i \in 1 .. Len(a), j \in 1 .. Len(s) :
                   ~(Max(a[i][1], s[j][1]) < Min(a[i][2], s[j][2]))
            /\ \A t \in 0 .. d - 1 :
                   Cardinality({i \in 1 .. Len(a) : Covers(a[i], t)})
                       + Cardinality({j \in 1 .. Len(s) : Covers(s[j], t)}) = 1
            /\ TotalDuration(a) + TotalDuration(s) = d
            /\ (act_pc = "done" =>
                    analysis.total_active_duration
                        + analysis.total_silence_duration = d)
            /\ (s = <<>> => a = << <<0, d>> >>)

\* silence intervals given out of order with sound before, between and after
C14_Witness ==
    /\ act_pc = "called"
    /\ DisjointSilence(audio_duration, silence_intervals)
    /\ Len(silence_intervals) = 2
    /\ silence_intervals[2][2] < silence_intervals[1][1]
    /\ \A i \in 1 .. 2 : silence_intervals[i][1] < silence_intervals[i][2]
    /\ Len(active_intervals) = 3

\* the maximal runs of consecutive silent frames, as <<first, last>> frame
\* indices counted from 0
SilentRuns(tags) ==
    LET n         == Len(tags)
        Silent(i) == i >= 0 /\ i < n /\ tags[i + 1]
    IN  {r \in (0 .. n - 1) \X (0 .. n - 1) :
            /\ r[1] <= r[2]
            /\ \A i \in r[1] .. r[2] : Silent(i)
            /\ ~Silent(r[1] - 1)
            /\ ~Silent(r[2] + 1)}

\* the time span reported for a run: from the frame before its first frame to
\* its last frame, with t[i] = i * hop
RunSpan(r) == frame_time(r[2]) - frame_time(r[1] - 1)

\* C15: detect_silence returns exactly one interval for every maximal run of
\* silent frames whose span is at least min_silence_duration, a run that
\* begins at frame 0 included, and none for a shorter run; every interval has
\* start <= end and end - start >= min_silence_duration, and the intervals
\* are in increasing order and pairwise disjoint.
C15_OneIntervalPerLongRun ==
    act_pc \in {"silence", "done"} =>
        LET s    == silence_intervals
            long == {r \in SilentRuns(silence_tags) :
                        RunSpan(r) >= min_silence_duration}
        IN  /\ Len(s) = Cardinality(long)
            /\ \A r \in long :
                   \E k \in 1 .. Len(s) : s[k][2] = frame_time(r[2])
            /\ \A k \in 1 .. Len(s) :
                   /\ s[k][1] <= s[k][2]
                   /\ s[k][2] - s[k][1] >= min_silence_duration
            /\ \A k \in 1 .. Len(s) - 1 : s[k][2] < s[k + 1][1]

--------------------------------------------------------------------------
(***************************************************************************)
(* bpm_detector on a pulse train (src/bpm_detect_1.py, lines 50-99).       *)
(*                                                                         *)
(* pywt.dwt halves the sample rate at every level, so the coefficients of  *)
(* loop iteration l are 2^(l+1) input samples apart, and the stride of     *)
(* line 69 keeps every 2^(levels-l-1)-th of them.  The values of the       *)
(* transform are modelled by where they are: a click raises the envelope   *)
(* of every level in the composite sample whose span of input samples      *)
(* holds it (and in the PulseWidths - 1 samples after it), by the same     *)
(* amount.  The mean is removed and the autocorrelation is computed as     *)
(* numpy.correlate computes it, scaled by len(cD_sum)^2 to stay integral.  *)
(***************************************************************************)

\* input samples between two consecutive entries of the strided array of
\* loop iteration `loop` (lines 59-69)
SampleSpacing(loop) == 2 ^ (loop + 1) * 2 ^ (levels - loop - 1)

\* input samples between two consecutive entries of cD_sum: the same for
\* every level and for the final approximation (lines 73, 82)
CompositeSpacing ==
    CHOOSE d \in {SampleSpacing(0)} :
        /\ \A loop \in 0 .. levels - 1 : SampleSpacing(loop) = d
        /\ 2 ^ levels = d

\* abs(cD) summed over the levels: entry j (from 1) is raised iff a click lies
\* in the span of input samples of one of the entries j - width + 1 .. j
PulseEnvelope(n, period, phase, width) ==
    LET Clicked(j) ==
            \E m \in 0 .. n \div period :
                /\ phase + m * period < n
                /\ (phase + m * period) \div CompositeSpacing = j - 1
    IN  [j \in 1 .. Lens[n].composite |->
            IF \E w \in 0 .. width - 1 : j - w >= 1 /\ Clicked(j - w)
            THEN levels + 1 ELSE 0]

RECURSIVE SeqSum(_)
SeqSum(x) == IF x = <<>> THEN 0 ELSE Head(x) + SeqSum(Tail(x))

\* x - numpy.mean(x), times len(x) (lines 70, 81)
RemoveMean(x) == [j \in 1 .. Len(x) |-> Len(x) * x[j] - SeqSum(x)]

\* numpy.correlate(x, x, "full")[midpoint + k] (lines 85-88)
Autocorrelation(x, k) ==
    SeqSum([i \in 1 .. Len(x) - k |-> x[i] * x[i + k]])

\* correl_midpoint_tmp[min_ndx:max_ndx] (line 94)
SearchedSlice(x, rate) ==
    LET b == SliceBounds(min_ndx(rate), max_ndx(rate), Len(x))
    IN  [i \in 1 .. (b[2] - b[1]) |-> Autocorrelation(x, b[1] + i - 1)]

\* a window of n samples at rate `rate` holding clicks every `period` samples
MakePulseTrain ==
    /\ pulse = None
    /\ \E rate \in PulseRates, n \in PulseWindows, period \in PulsePeriods,
          phase \in PulsePhases, width \in PulseWidths :
           /\ phase < period
           /\ pulse' = [stage |-> "window", fs |-> rate, n |-> n,
                        period |-> period, phase |-> phase, width |-> width,
                        cD_sum |-> <<>>, res |-> NoAudioData]
    /\ UNCHANGED <<bpm_vars, activity_vars>>

\* bpm_detector(data, fs) on that window
DetectPulse ==
    /\ pulse # None
    /\ pulse.stage = "window"
    /\ LET cD_sum == RemoveMean(PulseEnvelope(pulse.n, pulse.period,
                                              pulse.phase, pulse.width))
       IN  pulse' = [pulse EXCEPT
                        !.stage  = "detected",
                        !.cD_sum = cD_sum,
                        !.res    = bpm_detector(pulse.n, pulse.fs, FALSE,
                                                SearchedSlice(cD_sum, pulse.fs))]
    /\ UNCHANGED <<bpm_vars, activity_vars>>

NextPulse ==
    \/ MakePulseTrain
    \/ DetectPulse

SpecPulse == Init /\ [][NextPulse]_vars

PulseDetected == pulse # None /\ pulse.stage = "detected"

\* the lag that bpm = 60 / lag * (fs / 8) converts to 60 / P, for a period of
\* P * fs = period samples
TempoLag(period) == period \div max_decimation

\* C11: for a pulse train of period P with 60 / P inside [40, 220], the BPM
\* that bpm_detector reports is 60 / P to within one lag step: every reported
\* lag is within one of the lag that converts to 60 / P.
C11_PulseTrainTempo ==
    (PulseDetected
         /\ 40 * pulse.period <= 60 * pulse.fs
         /\ 60 * pulse.fs <= 220 * pulse.period) =>
        /\ pulse.res.out = "bpm"
        /\ \A i \in 1 .. Len(pulse.res.lags) :
               Abs(pulse.res.lags[i] - TempoLag(pulse.period)) <= 1
==========================================================================
